---- MODULE Spec2Model ----
(***************************************************************************)
(* The point-of-sale back office of src/app.py as a state machine: the     *)
(* product directory, the sales ledger, the session, the clock, and the    *)
(* handlers that read and write them.  The report handler (api_reports)    *)
(* is modelled step by step: the query it builds, the order the store      *)
(* returns the documents in, the rendering of the timestamps and the       *)
(* single pass that fills the two consolidations.                          *)
(***************************************************************************)
EXTENDS Integers, Sequences, FiniteSets, TLC

(***************************************************************************)
(* Bounds of the model.                                                    *)
(***************************************************************************)
\* Spec: the ledger holds at most MaxSales records.
MaxSales == 2
\* SpecReport: the ledger the reports are asked over holds at most MaxRows records.
MaxRows == 3
\* Spec: at most MaxProducts product documents are ever created.
MaxProducts == 1
\* Spec: the clock runs from 0 to MaxTime ticks.
MaxTime == 1
\* Largest quantity a sale request carries; a request may also carry -1.
MaxQty == 1
\* SpecStocks: at most MaxRequests stock requests are received.
MaxRequests == 3
\* Largest quantity a stock request carries.
MaxAmount == 1
\* Clock ticks in one second (10^6 microseconds in the program).
TicksPerSecond == 2
\* Seconds in one calendar day (86400 in the program).
SecondsPerDay == 2

TicksPerDay == TicksPerSecond * SecondsPerDay

(***************************************************************************)
(* Floating point.  price and total are Python floats (IEEE-754 doubles).  *)
(* The model holds the doubles of the form hi * 2^53 + lo, hi and lo small *)
(* integers, as the record [hi, lo]: below 2^53 every integer is a double, *)
(* in [2^53, 2^54) every second one, in [2^54, 2^55) every fourth one, and *)
(* a sum or product is rounded to the nearest double, ties to the one with *)
(* the even mantissa, as the hardware does.                                *)
(***************************************************************************)
F(h, l) == [hi |-> h, lo |-> l]

FZero == F(0, 0)

FNeg(x) == F(0 - x.hi, 0 - x.lo)

FIsNeg(x) == x.hi < 0 \/ (x.hi = 0 /\ x.lo < 0)

\* Distance between neighbouring doubles in the binade of h * 2^53.
RECURSIVE Ulp(_)
Ulp(h) == IF h <= 0 THEN 1 ELSE 2 * Ulp(h \div 2)

\* n rounded to the nearest multiple of s, a tie to the even multiple.
RoundTo(n, s) ==
    LET q == n \div s
        r == n % s
    IN  IF 2 * r < s THEN q * s
        ELSE IF 2 * r > s THEN (q + 1) * s
        ELSE IF q % 2 = 0 THEN q * s ELSE (q + 1) * s

\* The double nearest to the real number x.hi * 2^53 + x.lo.
FRound(x) ==
    LET pos == IF FIsNeg(x) THEN FNeg(x) ELSE x
        h   == IF pos.lo >= 0 THEN pos.hi ELSE pos.hi - 1
        res == F(pos.hi, RoundTo(pos.lo, Ulp(h)))
    IN  IF FIsNeg(x) THEN FNeg(res) ELSE res

\* a + b on floats.
FAdd(a, b) == FRound(F(a.hi + b.hi, a.lo + b.lo))

\* q * p, q an int and p a float: Python converts q to a float and multiplies.
FMul(q, p) == FRound(F(q * p.hi, q * p.lo))

(***************************************************************************)
(* Values of the requests and the documents.                               *)
(***************************************************************************)
Names == {"Tea", "Coffee"}

PaymentModes == {"Cash", "Card"}

\* A form field that the request does not carry.
Absent == "absent"

\* 2^53: the smallest double whose successor is 2 away.
Big == F(1, 0)

Prices == {F(0, 1), Big}

Quantities == {0 - 1} \cup 1 .. MaxQty

\* product_id of a request: 0 when the field is absent or empty, else an id.
NoProduct == 0

\* start_date / end_date of a report request: absent (or empty), a string
\* that is no ISO date ("not-a-date"), or an ISO string with wall-clock
\* fields wall and a UTC offset off (0 for a naive string or for +00:00).
NoDate == [kind |-> "absent", wall |-> 0, off |-> 0]

BadDate == [kind |-> "malformed", wall |-> 0, off |-> 0]

IsoDate(t, o) == [kind |-> "iso", wall |-> t, off |-> o]

VARIABLES
    products,   \* product directory: product id -> [name, price]
    pidCount,   \* number of product ids the store has handed out
    sales,      \* the ledger: a set of sale documents, each with its id
    now,        \* the clock, in ticks
    session,    \* the session cookie: shop_id or NoSession
    last,       \* the last request served and its response
    shops,      \* collection "shops": document id -> shop document
    stocks,     \* collection of stock items: document id -> [name, quantity, timestamp]
    inflight    \* the stock requests received, in order of arrival

vars == <<products, pidCount, sales, now, session, last, shops, stocks, inflight>>

(***************************************************************************)
(* Session and the trial gate.                                             *)
(***************************************************************************)
NoSession == "none"

ShopId == "shop_doc_1"

\* config.SHOP_NAME
SHOP_NAME == "tea_shop_1"

\* The shop document of the deployment (collection "shops"); no handler
\* writes it.  machine_code and expiry_date are optional fields.
Shops ==
    ShopId :> [shop_name    |-> SHOP_NAME,
               username     |-> "owner",
               password     |-> "secret",
               machine_code |-> Absent,
               expiry_date  |-> [present |-> FALSE, at |-> 0]]

MachineCode == "this-machine"

\* Mutant: the decorator does not look at expiry_date.
TrialRequiredIgnoringExpiry(s, t) ==
    IF s = NoSession THEN "login"
    ELSE IF s \notin DOMAIN shops THEN "login"
    ELSE "run"

\* The decorator's verdict for a request made at time t with session s:
\* "login" (redirect to the login page), "expired", or "run" (the body runs).
TrialRequired(s, t) ==
    IF s = NoSession THEN "login"
    ELSE IF s \notin DOMAIN shops THEN "login"
    ELSE IF shops[s].expiry_date.present /\ t > shops[s].expiry_date.at THEN "expired"
    ELSE "run"

\* The session the decorator leaves: cleared when the shop document is gone.
SessionAfterGate(s) ==
    IF s # NoSession /\ s \notin DOMAIN shops THEN NoSession ELSE s

(***************************************************************************)
(* Requests and responses.                                                 *)
(***************************************************************************)
NoRequest == [start_date |-> NoDate, end_date |-> NoDate, product_id |-> NoProduct]

EmptyDict == << >>

Response(status, rows, byDate, byProduct) ==
    [status |-> status, rows |-> rows, by_date |-> byDate,
     by_product_payment |-> byProduct]

\* A response that carries no rows: a redirect, an error or a bare success.
Plain(status) == Response(status, << >>, EmptyDict, EmptyDict)

(***************************************************************************)
(* The report: query, order, rendering, consolidation.                     *)
(***************************************************************************)
\* datetime.fromisoformat(s).replace(tzinfo=timezone.utc): the bound the
\* query gets from a date field.  An absent or empty field is skipped, a
\* malformed one raises and is swallowed; an ISO string gives its wall-clock
\* fields read as UTC (replace() overwrites the offset, it does not convert).
ParseDate(d) ==
    IF d.kind = "iso" THEN [bound |-> TRUE, at |-> d.wall]
    ELSE [bound |-> FALSE, at |-> 0]

\* Mutant: a product id that does not resolve filters on the empty name.
ResolveProductOrNothing(dir, pid) ==
    IF pid = NoProduct THEN [filter |-> FALSE, item |-> ""]
    ELSE IF pid \in DOMAIN dir THEN [filter |-> TRUE, item |-> dir[pid].name]
    ELSE [filter |-> TRUE, item |-> ""]

\* The product filter: the current name of the product when product_id is
\* given and its document exists, else no filter.
ResolveProduct(dir, pid) ==
    IF pid # NoProduct /\ pid \in DOMAIN dir
    THEN [filter |-> TRUE, item |-> dir[pid].name]
    ELSE [filter |-> FALSE, item |-> ""]

\* Mutant: the product filter compares the stored product_id, not the name.
QueryDocsByProductId(ledger, dir, req) ==
    LET sdt == ParseDate(req.start_date)
        edt == ParseDate(req.end_date)
        prod == ResolveProduct(dir, req.product_id)
    IN  {s \in ledger :
            /\ sdt.bound => s.timestamp >= sdt.at
            /\ edt.bound => s.timestamp <= edt.at
            /\ prod.filter => s.product_id = req.product_id}

\* The documents the query matches: the conjunction of the where() clauses.
QueryDocs(ledger, dir, req) ==
    LET sdt == ParseDate(req.start_date)
        edt == ParseDate(req.end_date)
        prod == ResolveProduct(dir, req.product_id)
    IN  {s \in ledger :
            /\ sdt.bound => s.timestamp >= sdt.at
            /\ edt.bound => s.timestamp <= edt.at
            /\ prod.filter => s.item = prod.item}

\* order_by("timestamp", DESCENDING): the store breaks ties by document id,
\* in the same direction.
ComesBefore(a, b) ==
    \/ a.timestamp > b.timestamp
    \/ a.timestamp = b.timestamp /\ a.id >= b.id

\* Mutant: ascending order, as download_sales asks for.
RECURSIVE OrderByTimestampAsc(_)
OrderByTimestampAsc(docs) ==
    IF docs = {} THEN << >>
    ELSE LET first == CHOOSE d \in docs : \A e \in docs : ComesBefore(e, d)
         IN  <<first>> \o OrderByTimestampAsc(docs \ {first})

RECURSIVE OrderByTimestampDesc(_)
OrderByTimestampDesc(docs) ==
    IF docs = {} THEN << >>
    ELSE LET first == CHOOSE d \in docs : \A e \in docs : ComesBefore(d, e)
         IN  <<first>> \o OrderByTimestampDesc(docs \ {first})

\* strftime("%Y-%m-%d %H:%M:%S"): the string names the second, the
\* microseconds are dropped.  A string is held as the number of its second.
Strftime(ts) == ts \div TicksPerSecond

\* Mutant: the whole rendered timestamp as the key (no [:10]).
DateKeyWholeString(str) == str

\* r["timestamp"][:10]: the calendar day of a rendered timestamp.
DateKey(str) == str \div SecondsPerDay

\* s.to_dict() with the timestamp rendered (the document id is not copied).
ToRow(s) ==
    [product_id   |-> s.product_id,
     item         |-> s.item,
     quantity     |-> s.quantity,
     price        |-> s.price,
     total        |-> s.total,
     payment_mode |-> s.payment_mode,
     timestamp    |-> Strftime(s.timestamp)]

ReportRows(ledger, dir, req) ==
    LET docs == OrderByTimestampDesc(QueryDocs(ledger, dir, req))
    IN  [i \in 1 .. Len(docs) |-> ToRow(docs[i])]

\* Mutant: plain assignment d[k] = v where the code has setdefault.
SetDefaultOverwrites(d, k, v) ==
    IF k \in DOMAIN d THEN [d EXCEPT ![k] = v] ELSE d @@ (k :> v)

\* dict.setdefault(k, v)
SetDefault(d, k, v) == IF k \in DOMAIN d THEN d ELSE d @@ (k :> v)

NewBucket == [qty |-> 0, amount |-> FZero]

\* bucket["qty"] += int(quantity); bucket["amount"] += float(total)
Accumulate(bucket, r) ==
    [qty |-> bucket.qty + r.quantity, amount |-> FAdd(bucket.amount, r.total)]

\* One turn of the consolidation loop for row r.
ConsolidateRow(acc, r) ==
    LET dateKey == DateKey(r.timestamp)
        byDate  == SetDefault(acc.by_date, dateKey, NewBucket)
        byProd  == SetDefault(acc.by_product, r.item, EmptyDict)
        modes   == SetDefault(byProd[r.item], r.payment_mode, NewBucket)
    IN  [by_date    |-> [byDate EXCEPT ![dateKey] = Accumulate(@, r)],
         by_product |-> [byProd EXCEPT ![r.item] =
                            [modes EXCEPT ![r.payment_mode] = Accumulate(@, r)]]]

RECURSIVE Consolidate(_, _)
Consolidate(acc, rows) ==
    IF rows = << >> THEN acc
    ELSE Consolidate(ConsolidateRow(acc, Head(rows)), Tail(rows))

\* The body of api_reports.
ReportResponse(ledger, dir, req) ==
    LET rows == ReportRows(ledger, dir, req)
        cons == Consolidate([by_date |-> EmptyDict, by_product |-> EmptyDict], rows)
    IN  Response("ok", rows, cons.by_date, cons.by_product)

(***************************************************************************)
(* Inputs of the handlers.  A form field is << >> when the request does    *)
(* not carry it and <<v>> when it carries v.                               *)
(***************************************************************************)
FormGet(field, default) == IF field = << >> THEN default ELSE field[1]

Optional(S) == {<< >>} \cup {<<v>> : v \in S}

Credentials == {<<"owner", "secret">>, <<"owner", "wrong">>, <<"", "">>}

\* Product ids a request may name: those the store can hand out and one more.
RequestProductIds == 1 .. (MaxProducts + 1)

\* return last 5
LastSalesLimit == 5

Served(op, req, resp) == [op |-> op, req |-> req, resp |-> resp]

Gate == TrialRequired(session, now)

\* The decorator turned the request away: nothing but the session can change.
Denied ==
    /\ last' = Served("trial_required", NoRequest, Plain(Gate))
    /\ session' = SessionAfterGate(session)
    /\ UNCHANGED <<products, pidCount, sales, now, shops, stocks, inflight>>

(***************************************************************************)
(* Handlers.                                                               *)
(***************************************************************************)
\* POST /api/login
LoginVerdict(username, password) ==
    LET found == {s \in DOMAIN shops :
                    /\ shops[s].shop_name = SHOP_NAME
                    /\ shops[s].username = username
                    /\ shops[s].password = password}
    IN  IF username = "" \/ password = "" THEN "required"
        ELSE IF found = {} THEN "incorrect"
        ELSE LET shop == shops[CHOOSE s \in found : TRUE]
             IN  IF shop.machine_code # Absent /\ shop.machine_code # MachineCode
                 THEN "machine"
                 ELSE IF shop.expiry_date.present /\ now > shop.expiry_date.at
                 THEN "expired"
                 ELSE "ok"

api_login(username, password) ==
    LET verdict == LoginVerdict(username, password)
    IN  /\ session' = IF verdict = "ok"
                      THEN CHOOSE s \in DOMAIN shops :
                              /\ shops[s].shop_name = SHOP_NAME
                              /\ shops[s].username = username
                              /\ shops[s].password = password
                      ELSE session
        /\ last' = Served("api_login", NoRequest, Plain(verdict))
        /\ UNCHANGED <<products, pidCount, sales, now, shops, stocks, inflight>>

\* GET /logout
logout ==
    /\ session' = NoSession
    /\ last' = Served("logout", NoRequest, Plain("login"))
    /\ UNCHANGED <<products, pidCount, sales, now, shops, stocks, inflight>>

\* POST /api/products: col.add gives the document a fresh id.
api_products(name, price) ==
    IF Gate # "run" THEN Denied
    ELSE /\ pidCount < MaxProducts
         /\ pidCount' = pidCount + 1
         /\ products' = products @@ ((pidCount + 1) :> [name |-> name, price |-> price])
         /\ last' = Served("api_products", NoRequest, Plain("ok"))
         /\ UNCHANGED <<sales, now, session, shops, stocks, inflight>>

\* PUT /api/products/<id>: doc.update fails on a document that is not there.
ProductPut(dir, id, name, price) ==
    [dir EXCEPT ![id] = [name  |-> FormGet(name, @.name),
                         price |-> FormGet(price, @.price)]]

api_product_item_put(id, name, price) ==
    IF Gate # "run" THEN Denied
    ELSE /\ products' = IF id \in DOMAIN products
                        THEN ProductPut(products, id, name, price)
                        ELSE products
         /\ last' = Served("api_product_item", NoRequest,
                           Plain(IF id \in DOMAIN products THEN "ok" ELSE "error"))
         /\ UNCHANGED <<pidCount, sales, now, session, shops, stocks, inflight>>

\* DELETE /api/products/<id>
api_product_item_delete(id) ==
    IF Gate # "run" THEN Denied
    ELSE /\ products' = [p \in DOMAIN products \ {id} |-> products[p]]
         /\ last' = Served("api_product_item", NoRequest, Plain("ok"))
         /\ UNCHANGED <<pidCount, sales, now, session, shops, stocks, inflight>>

\* Mutant: the total is the unit price, the quantity forgotten.
NewSaleTotalIsPrice(id, product_id, prod, qty, payment_mode, ts) ==
    [id           |-> id,
     product_id   |-> product_id,
     item         |-> prod.name,
     quantity     |-> qty,
     price        |-> prod.price,
     total        |-> prod.price,
     payment_mode |-> payment_mode,
     timestamp    |-> ts]

\* The sale document api_add_sale builds from the form and the product.
NewSale(id, product_id, prod, qty, payment_mode, ts) ==
    [id           |-> id,
     product_id   |-> product_id,
     item         |-> prod.name,
     quantity     |-> qty,
     price        |-> prod.price,
     total        |-> FMul(qty, prod.price),
     payment_mode |-> payment_mode,
     timestamp    |-> ts]

\* The last_sales of the response: the newest LastSalesLimit documents,
\* each with its id and its timestamp rendered.
LastSales(ledger) ==
    LET docs == OrderByTimestampDesc(ledger)
        n    == IF Len(docs) < LastSalesLimit THEN Len(docs) ELSE LastSalesLimit
    IN  [i \in 1 .. n |-> [docs[i] EXCEPT !.timestamp = Strftime(@)]]

\* Mutant: the document is stored under the product's id (set() on a fixed
\* document where the code has add()), replacing the product's last sale.
LedgerSetByProduct(ledger, sale) ==
    {s \in ledger : s.product_id # sale.product_id} \cup {sale}

\* The ledger after api_add_sale stored the document.
LedgerAdd(ledger, sale) == ledger \cup {sale}

\* POST /api/add_sale
api_add_sale(id, product, quantity, payment_mode) ==
    IF Gate # "run" THEN Denied
    ELSE IF product \notin DOMAIN products
    THEN /\ last' = Served("api_add_sale", NoRequest, Plain("not_found"))
         /\ UNCHANGED <<products, pidCount, sales, now, session, shops, stocks, inflight>>
    ELSE /\ Cardinality(sales) < MaxSales
         /\ id \notin {s.id : s \in sales}
         /\ sales' = LedgerAdd(sales,
                        NewSale(id, product, products[product], FormGet(quantity, 1),
                                FormGet(payment_mode, "Cash"), now))
         /\ last' = Served("api_add_sale", NoRequest,
                           Response("ok", LastSales(sales'), EmptyDict, EmptyDict))
         /\ UNCHANGED <<products, pidCount, now, session, shops, stocks, inflight>>

\* Mutant: the loop writes the rendered timestamp back to each document.
api_reports_writing_back(req) ==
    IF Gate # "run" THEN Denied
    ELSE /\ last' = Served("api_reports", req, ReportResponse(sales, products, req))
         /\ sales' = (sales \ QueryDocs(sales, products, req)) \cup
                        {[s EXCEPT !.timestamp = Strftime(@) * TicksPerSecond] :
                            s \in QueryDocs(sales, products, req)}
         /\ UNCHANGED <<products, pidCount, now, session, shops, stocks, inflight>>

\* POST /api/reports
api_reports(req) ==
    IF Gate # "run" THEN Denied
    ELSE /\ last' = Served("api_reports", req, ReportResponse(sales, products, req))
         /\ UNCHANGED <<products, pidCount, sales, now, session, shops, stocks, inflight>>

\* The clock advances.
Tick ==
    /\ now < MaxTime
    /\ now' = now + 1
    /\ UNCHANGED <<products, pidCount, sales, session, last, shops, stocks, inflight>>

(***************************************************************************)
(* Report requests.                                                        *)
(***************************************************************************)
\* The instant d ticks into second s of day n.
At(n, s, d) == n * TicksPerDay + s * TicksPerSecond + d

QueryTimes == {At(0, 0, 1), At(0, 1, 0)}

\* A UTC offset of one second (+00:00:01).
OneSecondEast == TicksPerSecond

\* Absent, malformed, naive ISO strings, and one ISO string with an offset.
DateInputs ==
    {NoDate, BadDate} \cup {IsoDate(t, 0) : t \in QueryTimes}
        \cup {IsoDate(At(0, 1, 0), OneSecondEast)}

ReportRequests ==
    [start_date : DateInputs, end_date : DateInputs,
     product_id : {NoProduct} \cup RequestProductIds]

\* Spec asks its reports with the product filter and one date bound at most.
ShopReportRequests ==
    {r \in ReportRequests :
        /\ r.start_date \in {NoDate, IsoDate(At(0, 0, 1), 0)}
        /\ r.end_date = NoDate}

(***************************************************************************)
(* Spec: the shop from an empty database.                                  *)
(***************************************************************************)
Init ==
    /\ products = << >>
    /\ pidCount = 0
    /\ sales = {}
    /\ now = 0
    /\ session = NoSession
    /\ last = Served("none", NoRequest, Plain("none"))
    /\ shops = Shops
    /\ stocks = << >>
    /\ inflight = << >>

Next ==
    \/ \E c \in Credentials : api_login(c[1], c[2])
    \/ logout
    \/ \E n \in Names, p \in Prices : api_products(n, p)
    \/ \E id \in RequestProductIds, n \in Optional(Names), p \in Optional(Prices) :
          /\ n # << >> \/ p # << >>
          /\ api_product_item_put(id, n, p)
    \/ \E id \in RequestProductIds : api_product_item_delete(id)
    \/ \E id \in 1 .. MaxSales, prod \in RequestProductIds,
          \* a quantity of 1 and the mode "Cash" are what an absent field gives
          q \in Optional(Quantities \ {1}), m \in Optional(PaymentModes \ {"Cash"}) :
          api_add_sale(id, prod, q, m)
    \/ \E req \in ShopReportRequests : api_reports(req)
    \/ Tick

Spec == Init /\ [][Next]_vars

(***************************************************************************)
(* SpecReport: reports over a shop that has traded.  The ledger is any     *)
(* MaxRows or fewer of the sales below, each as api_add_sale stores it;    *)
(* the first three are the Tea/Tea/Coffee ledger.  Day 0 stands for        *)
(* 2024-01-01 and day 1 for 2024-01-02.                                    *)
(***************************************************************************)
Ten == F(0, 10)

Twenty == F(0, 20)

One == F(0, 1)

Tea(price) == [name |-> "Tea", price |-> price]

Coffee(price) == [name |-> "Coffee", price |-> price]

SampleSales ==
    { NewSale(1, 1, Tea(Ten), 2, "Cash", At(0, 0, 0)),
      NewSale(2, 1, Tea(Ten), 1, "Card", At(0, 0, 1)),
      NewSale(3, 2, Coffee(Twenty), 3, "Cash", At(1, 0, 0)),
      NewSale(4, 2, Coffee(Big), 1, "Cash", At(1, 0, 0)),
      NewSale(5, 1, Tea(One), 1, "Card", At(0, 1, 0)),
      NewSale(6, 2, Tea(One), 1, "Cash", At(0, 1, 0)),
      NewSale(7, 1, Coffee(Ten), 0 - 1, "Card", At(0, 0, 1)) }

\* Product directories the sales above leave behind: both products under
\* their names, or product 1 renamed and product 2 deleted.
SampleDirectories ==
    { (1 :> Tea(Ten)) @@ (2 :> Coffee(Twenty)),
      (1 :> Coffee(One)) }

InitReport ==
    /\ sales \in {S \in SUBSET SampleSales : Cardinality(S) <= MaxRows}
    /\ products \in SampleDirectories
    /\ pidCount = 2
    /\ now = At(1, 1, 0)
    /\ session = ShopId
    /\ last = Served("none", NoRequest, Plain("none"))
    /\ shops = Shops
    /\ stocks = << >>
    /\ inflight = << >>

NextReport == \E req \in ReportRequests : api_reports(req)

SpecReport == InitReport /\ [][NextReport]_vars

(***************************************************************************)
(* Stock items.  The server answers requests on several threads, so the    *)
(* database operations of different requests interleave.  POST /api/stocks *)
(* makes two: a query by name, then an update or an add.  Load and unload  *)
(* make one, an update with firestore.Increment, which the store applies   *)
(* atomically.                                                             *)
(***************************************************************************)
StockNames == {"Sugar", "Salt"}

StockAmounts == 1 .. MaxAmount

\* Document ids a load or unload request may name.
RequestStockIds == {1, 2}

\* found = None
NotFound == [id |-> 0, quantity |-> 0]

\* A stock request: the handler, its inputs, the step it is at ("write"
\* after the query of api_stocks, "done" once answered) and what the query
\* found.
StockRequest(op, name, id, quantity, pc, found) ==
    [op |-> op, name |-> name, id |-> id, quantity |-> quantity,
     pc |-> pc, found |-> found]

\* col.where("name", "==", name).stream()
StocksNamed(col, name) == {d \in DOMAIN col : col[d].name = name}

\* document(id).update({"quantity": firestore.Increment(n)})
Increment(col, id, n) == [col EXCEPT ![id].quantity = @ + n]

\* document(id).update({"quantity": value})
UpdateQuantity(col, id, value) == [col EXCEPT ![id].quantity = value]

\* col.add(...): the document gets a fresh id.
StockAdd(col, name, quantity, ts) ==
    col @@ ((Cardinality(DOMAIN col) + 1) :>
                [name |-> name, quantity |-> quantity, timestamp |-> ts])

\* POST /api/stocks, up to the query: found is the first document the
\* stream yields, any of those with the name, or None.
api_stocks_query(name, quantity) ==
    IF Gate # "run" THEN Denied
    ELSE /\ Len(inflight) < MaxRequests
         /\ \E found \in IF StocksNamed(stocks, name) = {} THEN {NotFound}
                         ELSE {[id |-> d, quantity |-> stocks[d].quantity] :
                                  d \in StocksNamed(stocks, name)} :
               inflight' = Append(inflight,
                              StockRequest("api_stocks", name, 0, quantity, "write", found))
         /\ UNCHANGED <<products, pidCount, sales, now, session, last, shops, stocks>>

\* POST /api/stocks, from the query on: update the document found with the
\* quantity read plus the quantity given, or add a document.  The update
\* fails on a document that is not there.
api_stocks_write(i) ==
    LET r == inflight[i]
    IN  /\ r.pc = "write"
        /\ stocks' = IF r.found = NotFound
                     THEN StockAdd(stocks, r.name, r.quantity, now)
                     ELSE IF r.found.id \in DOMAIN stocks
                     THEN UpdateQuantity(stocks, r.found.id, r.found.quantity + r.quantity)
                     ELSE stocks
        /\ inflight' = [inflight EXCEPT ![i].pc = "done"]
        /\ last' = Served("api_stocks", NoRequest,
                          Plain(IF r.found = NotFound \/ r.found.id \in DOMAIN stocks
                                THEN "ok" ELSE "error"))
        /\ UNCHANGED <<products, pidCount, sales, now, session, shops>>

\* A request that makes one update with an increment of n.
StockIncrement(op, id, quantity, n) ==
    IF Gate # "run" THEN Denied
    ELSE /\ Len(inflight) < MaxRequests
         /\ stocks' = IF id \in DOMAIN stocks THEN Increment(stocks, id, n) ELSE stocks
         /\ inflight' = Append(inflight, StockRequest(op, "", id, quantity, "done", NotFound))
         /\ last' = Served(op, NoRequest,
                           Plain(IF id \in DOMAIN stocks THEN "ok" ELSE "error"))
         /\ UNCHANGED <<products, pidCount, sales, now, session, shops>>

\* POST /api/stocks/load/<id>
api_stock_load(id, qty) == StockIncrement("api_stock_load", id, qty, qty)

\* POST /api/stocks/unload/<id>
api_stock_unload(id, qty) == StockIncrement("api_stock_unload", id, qty, 0 - qty)

(***************************************************************************)
(* SpecStocks: concurrent stock requests in a shop that is logged in and   *)
(* has one stock item, Sugar, as POST /api/stocks with name Sugar and      *)
(* quantity 5 left it.                                                     *)
(***************************************************************************)
Sugar == 1

InitialStocks == StockAdd(<< >>, "Sugar", 5, 0)

InitStocks ==
    /\ products = << >>
    /\ pidCount = 0
    /\ sales = {}
    /\ now = 0
    /\ session = ShopId
    /\ last = Served("none", NoRequest, Plain("none"))
    /\ shops = Shops
    /\ stocks = InitialStocks
    /\ inflight = << >>

NextStocks ==
    \/ \E n \in StockNames, q \in StockAmounts : api_stocks_query(n, q)
    \/ \E i \in 1 .. MaxRequests : i \in DOMAIN inflight /\ api_stocks_write(i)
    \/ \E id \in RequestStockIds, q \in StockAmounts : api_stock_load(id, q)
    \/ \E id \in RequestStockIds, q \in StockAmounts : api_stock_unload(id, q)

SpecStocks == InitStocks /\ [][NextStocks]_vars

(***************************************************************************)
(* SpecAccess: login, logout and the trial gate while the shop document    *)
(* varies.  The app only reads the collection "shops"; the documents are   *)
(* written from outside it (a subscription is set to expire, an account is *)
(* bound to a machine, a shop document is removed).                        *)
(***************************************************************************)
\* The shop document with the optional fields set.
ShopWith(shop_name, machine_code, expiry_date) ==
    ShopId :> [shop_name    |-> shop_name,
               username     |-> "owner",
               password     |-> "secret",
               machine_code |-> machine_code,
               expiry_date  |-> expiry_date]

NoExpiry == [present |-> FALSE, at |-> 0]

ExpiresAt(t) == [present |-> TRUE, at |-> t]

\* The collection "shops" as it can be found: the plain account, the account
\* with a subscription ending at time 0, bound to this machine, bound to
\* another machine, the account of another shop, and no document at all.
SampleShops ==
    { Shops,
      ShopWith(SHOP_NAME, Absent, ExpiresAt(0)),
      ShopWith(SHOP_NAME, MachineCode, NoExpiry),
      ShopWith(SHOP_NAME, "other-machine", NoExpiry),
      ShopWith("other_shop", Absent, NoExpiry),
      << >> }

\* The shop documents are changed from outside the app.
ShopsWritten ==
    /\ shops' \in SampleShops \ {shops}
    /\ UNCHANGED <<products, pidCount, sales, now, session, last, stocks, inflight>>

InitAccess ==
    /\ products = << >>
    /\ pidCount = 0
    /\ sales = {}
    /\ now = 0
    /\ session = NoSession
    /\ last = Served("none", NoRequest, Plain("none"))
    /\ shops \in SampleShops
    /\ stocks = << >>
    /\ inflight = << >>

NextAccess ==
    \/ \E c \in Credentials : api_login(c[1], c[2])
    \/ logout
    \/ \E req \in ShopReportRequests : api_reports(req)
    \/ Tick
    \/ ShopsWritten

SpecAccess == InitAccess /\ [][NextAccess]_vars

(***************************************************************************)
(* What the claims speak of.                                               *)
(***************************************************************************)
\* The last request was a report and its body ran.
IsReport == last.op = "api_reports" /\ last.resp.status = "ok"

\* sum() of a list of ints and of a list of floats, left to right from 0.
RECURSIVE IntSum(_)
IntSum(seq) == IF seq = << >> THEN 0 ELSE seq[1] + IntSum(Tail(seq))

RECURSIVE FSumFrom(_, _)
FSumFrom(acc, seq) ==
    IF seq = << >> THEN acc ELSE FSumFrom(FAdd(acc, seq[1]), Tail(seq))

FSum(seq) == FSumFrom(FZero, seq)

\* The keys of a consolidation in the order a dict iterates: first insertion,
\* that is first occurrence among the rows.
RECURSIVE FirstOccurrences(_, _)
FirstOccurrences(keys, seen) ==
    IF keys = << >> THEN << >>
    ELSE IF keys[1] \in seen THEN FirstOccurrences(Tail(keys), seen)
    ELSE <<keys[1]>> \o FirstOccurrences(Tail(keys), seen \cup {keys[1]})

\* The calendar day a row's rendered timestamp falls on.
DayOf(r) == r.timestamp \div SecondsPerDay

DaysInOrder(rows) == FirstOccurrences([i \in 1 .. Len(rows) |-> DayOf(rows[i])], {})

Quantity(rows) == [i \in 1 .. Len(rows) |-> rows[i].quantity]

Total(rows) == [i \in 1 .. Len(rows) |-> rows[i].total]

ByDateQty(resp) ==
    LET days == DaysInOrder(resp.rows)
    IN  IntSum([i \in 1 .. Len(days) |-> resp.by_date[days[i]].qty])

ByDateAmount(resp) ==
    LET days == DaysInOrder(resp.rows)
    IN  FSum([i \in 1 .. Len(days) |-> resp.by_date[days[i]].amount])

(***************************************************************************)
(* C1.  The by_date view conserves the raw rows: the sum of qty over the   *)
(* days of by_date equals the sum of quantity over rows, and the sum of    *)
(* amount over the days equals the sum of total over rows.  The amounts    *)
(* are floats, and float addition does not associate: grouping the rows by *)
(* day changes the rounding, so the second equality fails.                 *)
(***************************************************************************)
C1_ByDateConservesRows ==
    IsReport =>
        /\ ByDateQty(last.resp) = IntSum(Quantity(last.resp.rows))
        /\ ByDateAmount(last.resp) = FSum(Total(last.resp.rows))

\* The half of C1 that is integer arithmetic: the qty sums agree.
ByDateConservesQuantity ==
    IsReport => ByDateQty(last.resp) = IntSum(Quantity(last.resp.rows))

RECURSIVE SetSum(_, _)
SetSum(S, f) ==
    IF S = {} THEN 0
    ELSE LET x == CHOOSE y \in S : TRUE IN f[x] + SetSum(S \ {x}, f)

\* sum(by_product_payment[p][m].qty for p, m)
ByProductQty(resp) ==
    LET bpp == resp.by_product_payment
        perProduct == [p \in DOMAIN bpp |->
                          SetSum(DOMAIN bpp[p], [m \in DOMAIN bpp[p] |-> bpp[p][m].qty])]
    IN  SetSum(DOMAIN bpp, perProduct)

(***************************************************************************)
(* C2.  The sum of qty over all (product, payment mode) buckets of         *)
(* by_product_payment equals the sum of quantity over rows.                *)
(***************************************************************************)
C2_ByProductPaymentConservesQty ==
    IsReport => ByProductQty(last.resp) = IntSum(Quantity(last.resp.rows))

\* A report with rows of two products and two payment modes, one of them
\* with a negative quantity.
C2_Witness ==
    /\ IsReport
    /\ Cardinality(DOMAIN last.resp.by_product_payment) = 2
    /\ \E p \in DOMAIN last.resp.by_product_payment :
          Cardinality(DOMAIN last.resp.by_product_payment[p]) = 2
    /\ \E i \in 1 .. Len(last.resp.rows) : last.resp.rows[i].quantity < 0
    /\ Len(last.resp.rows) = 3

ReferenceBucket(rows) ==
    [qty |-> IntSum(Quantity(rows)), amount |-> FSum(Total(rows))]

RowsOf(resp) == {resp.rows[i] : i \in 1 .. Len(resp.rows)}

TeaTeaCoffee == {s \in SampleSales : s.id \in 1 .. 3}

(***************************************************************************)
(* C3.  Each consolidation bucket equals a reference aggregation of rows:  *)
(* by_date has a key for exactly the calendar days that occur in rows and  *)
(* by_date[d] holds the quantity sum and the total sum of the rows of day  *)
(* d; by_product_payment has an entry [p][m] for exactly the (item,        *)
(* payment mode) pairs that occur in rows, with the sums of those rows.    *)
(* The Tea/Tea/Coffee ledger gives the buckets the scenario lists.         *)
(***************************************************************************)
C3_BucketsEqualReference ==
    IsReport =>
        LET rows == last.resp.rows
            bd   == last.resp.by_date
            bpp  == last.resp.by_product_payment
        IN  /\ DOMAIN bd = {DayOf(r) : r \in RowsOf(last.resp)}
            /\ \A d \in DOMAIN bd :
                  bd[d] = ReferenceBucket(SelectSeq(rows, LAMBDA r : DayOf(r) = d))
            /\ DOMAIN bpp = {r.item : r \in RowsOf(last.resp)}
            /\ \A p \in DOMAIN bpp :
                  /\ DOMAIN bpp[p] =
                        {r.payment_mode : r \in {x \in RowsOf(last.resp) : x.item = p}}
                  /\ \A m \in DOMAIN bpp[p] :
                        bpp[p][m] = ReferenceBucket(
                            SelectSeq(rows, LAMBDA r : r.item = p /\ r.payment_mode = m))
            /\ (sales = TeaTeaCoffee /\ last.req = NoRequest) =>
                  /\ bd = (0 :> [qty |-> 3, amount |-> F(0, 30)])
                            @@ (1 :> [qty |-> 3, amount |-> F(0, 60)])
                  /\ bpp["Tea"]["Cash"] = [qty |-> 2, amount |-> F(0, 20)]
                  /\ bpp["Tea"]["Card"] = [qty |-> 1, amount |-> F(0, 10)]
                  /\ bpp["Coffee"]["Cash"] = [qty |-> 3, amount |-> F(0, 60)]

\* The unfiltered report over the Tea/Tea/Coffee ledger.
C3_Witness ==
    /\ IsReport
    /\ sales = TeaTeaCoffee
    /\ last.req = NoRequest
    /\ Len(last.resp.rows) = 3
    /\ DOMAIN last.resp.by_date = {0, 1}

\* The instant an ISO date-time string names.
Instant(d) == d.wall - d.off

IsGiven(d) == d.kind = "iso"

\* The records the request asks for.
Requested(ledger, dir, req) ==
    {s \in ledger :
        /\ IsGiven(req.start_date) => Instant(req.start_date) <= s.timestamp
        /\ IsGiven(req.end_date) => s.timestamp <= Instant(req.end_date)
        /\ (req.product_id # NoProduct /\ req.product_id \in DOMAIN dir)
              => s.item = dir[req.product_id].name}

\* rows holds the records of S, each once, and nothing else.
RowsAreExactly(rows, S) ==
    /\ Len(rows) = Cardinality(S)
    /\ \A s \in S :
          Cardinality({i \in 1 .. Len(rows) : rows[i] = ToRow(s)})
              = Cardinality({t \in S : ToRow(t) = ToRow(s)})

(***************************************************************************)
(* C4.  The report applies the conjunction of the filters that were parsed *)
(* or resolved, both date bounds inclusive: rows is exactly the set of     *)
(* ledger records r with start_date <= r.timestamp <= end_date (and the    *)
(* item matching when a product filter applies).  The instant an ISO       *)
(* string names is its wall-clock time less its offset; the handler reads  *)
(* the wall-clock time as UTC and drops the offset, so a bound given with  *)
(* an offset is applied at another instant.                                *)
(***************************************************************************)
C4_RowsAreTheRequestedRecords ==
    IsReport => RowsAreExactly(last.resp.rows, Requested(sales, products, last.req))

Malformed(d) == d.kind = "malformed"

Unresolved(dir, pid) == pid # NoProduct /\ pid \notin DOMAIN dir

\* The request with every invalid field left out.
WithoutInvalid(dir, req) ==
    [start_date |-> IF Malformed(req.start_date) THEN NoDate ELSE req.start_date,
     end_date   |-> IF Malformed(req.end_date) THEN NoDate ELSE req.end_date,
     product_id |-> IF Unresolved(dir, req.product_id) THEN NoProduct
                    ELSE req.product_id]

HasInvalid(dir, req) == WithoutInvalid(dir, req) # req

\* C4 for requests whose date strings carry no offset.
RowsAreTheRequestedRecordsWithoutOffsets ==
    (IsReport /\ last.req.start_date.off = 0 /\ last.req.end_date.off = 0) =>
        RowsAreExactly(last.resp.rows, Requested(sales, products, last.req))

(***************************************************************************)
(* C5.  Invalid filters degrade silently to absent filters: a report with  *)
(* a malformed start_date or end_date, or with a product_id that does not  *)
(* resolve, returns no error and the same rows, by_date and                *)
(* by_product_payment as the same request with that field omitted.         *)
(***************************************************************************)
C5_InvalidFiltersAreAbsentFilters ==
    (last.op = "api_reports" /\ HasInvalid(products, last.req)) =>
        /\ last.resp.status = "ok"
        /\ last.resp = ReportResponse(sales, products, WithoutInvalid(products, last.req))

\* A report with a malformed start_date and an unresolved product_id whose
\* valid end_date keeps some rows and drops others.
C5_Witness ==
    /\ IsReport
    /\ Malformed(last.req.start_date)
    /\ IsGiven(last.req.end_date)
    /\ Unresolved(products, last.req.product_id)
    /\ Len(last.resp.rows) = 2
    /\ Cardinality(sales) = 3

(***************************************************************************)
(* C7.  The rows of every report are ordered by timestamp non-increasing:  *)
(* each row's timestamp is >= the timestamp of the row after it.           *)
(***************************************************************************)
C7_RowsNonIncreasing ==
    IsReport =>
        \A i \in 1 .. Len(last.resp.rows) - 1 :
            last.resp.rows[i].timestamp >= last.resp.rows[i + 1].timestamp

\* Three rows: two of the same second, one later.
C7_Witness ==
    /\ IsReport
    /\ Len(last.resp.rows) = 3
    /\ last.resp.rows[1].timestamp > last.resp.rows[2].timestamp
    /\ last.resp.rows[2].timestamp = last.resp.rows[3].timestamp

(***************************************************************************)
(* C6.  When product_id resolves, the report holds exactly the matching    *)
(* records whose stored item equals the product's name at the time of the  *)
(* report; so after add_sale and rename operations the sales recorded      *)
(* under an earlier name of the product are left out of a report filtered  *)
(* by its product_id, although their product_id field matches.             *)
(***************************************************************************)
C6_ProductFilterIsByCurrentName ==
    (IsReport /\ last.req.product_id \in DOMAIN products) =>
        LET pid  == last.req.product_id
            name == products[pid].name
            rows == last.resp.rows
            unfiltered == ReportRows(sales, products,
                                     [last.req EXCEPT !.product_id = NoProduct])
        IN  /\ rows = SelectSeq(unfiltered, LAMBDA r : r.item = name)
            /\ \A s \in sales :
                  (s.product_id = pid /\ s.item # name) =>
                      \A i \in 1 .. Len(rows) : rows[i] # ToRow(s)

\* A report by product id after a rename: one sale under the old name is
\* left out, one under the new name is reported.
C6_Witness ==
    /\ IsReport
    /\ last.req.product_id \in DOMAIN products
    /\ Len(last.resp.rows) = 1
    /\ \E s \in sales :
          /\ s.product_id = last.req.product_id
          /\ s.item # products[last.req.product_id].name
    /\ \E s \in sales :
          /\ s.product_id = last.req.product_id
          /\ s.item = products[last.req.product_id].name

(***************************************************************************)
(* C8.  Every sale record in the ledger satisfies total == quantity *      *)
(* price, where price and item are the product's price and name at the     *)
(* moment of the sale; later updates or the deletion of the product never  *)
(* change the item, price or total of an existing sale record.             *)
(***************************************************************************)
C8_SaleKeepsItsSnapshot ==
    [][ /\ \A s \in sales' : s.total = FMul(s.quantity, s.price)
        /\ \A s \in sales' \ sales :
              /\ s.product_id \in DOMAIN products
              /\ s.item = products[s.product_id].name
              /\ s.price = products[s.product_id].price
        /\ \A s \in sales : \E t \in sales' :
              /\ t.id = s.id
              /\ t.item = s.item
              /\ t.price = s.price
              /\ t.total = s.total ]_vars

\* After a product update or deletion, a sale of quantity other than 1
\* whose product is gone or has another name or price now.
C8_Witness ==
    /\ last.op = "api_product_item"
    /\ last.resp.status = "ok"
    /\ \E s \in sales :
          /\ s.quantity # 1
          /\ \/ s.product_id \notin DOMAIN products
             \/ /\ s.product_id \in DOMAIN products
                /\ products[s.product_id].price # s.price
                /\ products[s.product_id].name # s.item

AddSaleSucceeded(l) == l.op = "api_add_sale" /\ l.resp.status = "ok"

(***************************************************************************)
(* C9.  The ledger is append-only: over any sequence of requests a sale    *)
(* record once present stays in the ledger with all fields unchanged, and  *)
(* the only operation that adds a record is a successful api_add_sale,     *)
(* which adds exactly one.                                                 *)
(***************************************************************************)
C9_LedgerIsAppendOnly ==
    [][ /\ sales \subseteq sales'
        /\ sales' # sales =>
              AddSaleSucceeded(last') /\ Cardinality(sales' \ sales) = 1
        /\ (AddSaleSucceeded(last') /\ last' # last) =>
              Cardinality(sales' \ sales) = 1 ]_vars

\* A second sale has just been added to the ledger.
C9_Witness ==
    /\ AddSaleSucceeded(last)
    /\ Cardinality(sales) = 2
    /\ Len(last.resp.rows) = 2

(***************************************************************************)
(* C10.  A report request has no side effects: it leaves the ledger, the   *)
(* product directory and every other collection unchanged, so the same     *)
(* request asked again over the unchanged ledger and directory returns the *)
(* same rows, by_date and by_product_payment.                              *)
(***************************************************************************)
C10_ReportHasNoSideEffects ==
    [][ last'.op = "api_reports" =>
            /\ UNCHANGED <<products, pidCount, sales, session>>
            /\ last'.resp = ReportResponse(sales', products', last'.req) ]_vars

\* A report that returned one of two sales of the ledger.
C10_Witness ==
    /\ IsReport
    /\ Cardinality(sales) = 2
    /\ Len(last.resp.rows) = 1
    /\ IsGiven(last.req.start_date)

(***************************************************************************)
(* C11.  Every sale record that api_add_sale writes to the ledger has a    *)
(* positive integer quantity, whatever quantity the request carries.  The  *)
(* handler stores int(quantity) as it comes, so a request with quantity -1 *)
(* leaves a record with quantity -1.                                       *)
(***************************************************************************)
C11_WrittenQuantityIsPositive ==
    [][\A s \in sales' \ sales : s.quantity \in Nat \ {0}]_vars

\* Every stock request received has been answered.
AllCompleted == \A i \in DOMAIN inflight : inflight[i].pc = "done"

\* What a request adds to the quantity of the stock item Sugar.
AmountFor(r) ==
    IF r.op = "api_stocks" /\ r.name = stocks[Sugar].name THEN r.quantity
    ELSE IF r.op = "api_stock_load" /\ r.id = Sugar THEN r.quantity
    ELSE IF r.op = "api_stock_unload" /\ r.id = Sugar THEN 0 - r.quantity
    ELSE 0

AmountsRequested == IntSum([i \in DOMAIN inflight |-> AmountFor(inflight[i])])

InitialQuantity == InitialStocks[Sugar].quantity

(***************************************************************************)
(* C12.  No stock quantity update is lost: once concurrent add-by-name,    *)
(* load and unload requests on one stock item have all completed, its      *)
(* quantity is the initial quantity plus the amounts added and loaded      *)
(* minus the amounts unloaded.  POST /api/stocks writes the quantity it    *)
(* read plus its own amount, so an update that lands between its query and *)
(* its write is overwritten.                                               *)
(***************************************************************************)
C12_NoStockUpdateIsLost ==
    AllCompleted => stocks[Sugar].quantity = InitialQuantity + AmountsRequested

\* Loads and unloads alone, which go through firestore.Increment, lose
\* nothing.
LoadsAndUnloadsAreNotLost ==
    (AllCompleted /\ \A i \in DOMAIN inflight :
                        inflight[i].op = "api_stocks" => inflight[i].name # "Sugar")
        => stocks[Sugar].quantity = InitialQuantity + AmountsRequested

\* The session holds the id of a shop document that exists and whose
\* expiry_date is absent or not earlier than now.
Entitled ==
    /\ session \in DOMAIN shops
    /\ ~shops[session].expiry_date.present \/ shops[session].expiry_date.at >= now

\* This step served a request and ran the body of a protected handler.
BodyRan ==
    /\ last' # last
    /\ last'.op \notin {"none", "api_login", "logout", "trial_required"}

\* Credentials c match shop document id, the account is not bound to another
\* machine and its subscription has not expired.
MayLogIn(c, id) ==
    /\ id \in DOMAIN shops
    /\ shops[id].username = c[1] /\ shops[id].password = c[2]
    /\ shops[id].machine_code \in {Absent, MachineCode}
    /\ ~shops[id].expiry_date.present \/ shops[id].expiry_date.at >= now

\* This step put a shop_id into the session.
GotShopId == session' # NoSession /\ session' # session

====
